---- MODULE Spec2Model ----
(***************************************************************************)
(* Model of faust/topics.py: TopicConsumer (deliver / put / get) and       *)
(* TopicManager (add_source, update, _compile_pattern, the dispatch        *)
(* callback on_message, ack_message, on_start / _delayed_start / on_stop). *)
(*                                                                         *)
(* The program runs on one asyncio event loop: a step of the model is the  *)
(* code a task runs between two suspension points (await).                 *)
(***************************************************************************)
EXTENDS Naturals, Sequences, FiniteSets, TLC

(***************************************************************************)
(* Bounds of the model.                                                    *)
(***************************************************************************)
MaxMsgs == 1        \* records the transport hands to the dispatch callback
MaxAcks == 2        \* transport acks of a record after which ack_message is not called on it again
MaxFlow == 2        \* records the transport hands over in FlowSpec

Msgs == 1 .. MaxMsgs

(***************************************************************************)
(* The scenario: two TopicConsumers with name-listed descriptors,          *)
(* C1 on topics a, b and C2 on topics b, c; the transport may hand over a  *)
(* record of a topic nobody lists ("z").                                   *)
(***************************************************************************)
Consumers == {"C1", "C2"}

\* CompileSpec adds a TopicConsumer P whose descriptor is pattern-based:
\* Topic(app, pattern=...), constructed without topics
Registrable == Consumers \cup {"P"}

\* Topic.topics of a descriptor constructed without topics: None
NoTopics == <<"None">>

\* source.topic.topics: the descriptor's ordered sequence of topic names
topics(c) ==
    IF c = "C1" THEN <<"a", "b">>
    ELSE IF c = "C2" THEN <<"b", "c">>
    ELSE NoTopics

\* topics of the records the transport hands over
RecordTopics == {"a", "b", "z"}

None == "None"

Range(s) == {s[i] : i \in 1 .. Len(s)}

\* the orders in which a set can be iterated (Python set iteration order is
\* not specified)
Orders(S) == {s \in [1 .. Cardinality(S) -> S] : Range(s) = S}

\* iteration of a set S of consumers: the order follows the hashes of the
\* objects, which do not change during a run; h is that order
RECURSIVE Iter(_, _)
Iter(S, h) ==
    IF Len(h) = 0 THEN <<>>
    ELSE (IF h[1] \in S THEN <<h[1]>> ELSE <<>>) \o Iter(S, Tail(h))

(***************************************************************************)
(* _topicmap is a defaultdict(set).  A dict keeps its keys in insertion    *)
(* order: keys is that order, sets the value of each key.                  *)
(***************************************************************************)
EmptyMap == [keys |-> <<>>, sets |-> <<>>]

Keys(tm) == Range(tm.keys)

\* position of key t in the dict (0 when absent)
KeyPos(tm, t) == IF t \in Keys(tm) THEN CHOOSE i \in 1 .. Len(tm.keys) : tm.keys[i] = t ELSE 0

\* defaultdict.__getitem__ / __missing__: a missing key is inserted with the
\* default value set() before it is returned
GetItem(tm, t) ==
    IF t \in Keys(tm) THEN tm
    ELSE [keys |-> Append(tm.keys, t), sets |-> Append(tm.sets, {})]

\* the value self._topicmap[t] after GetItem
Value(tm, t) == tm.sets[KeyPos(tm, t)]

\* MapAdd with the set of the key replaced instead of extended
MapAdd_assign(tm, t, c) ==
    LET m == GetItem(tm, t)
        i == KeyPos(m, t)
    IN  [m EXCEPT !.sets[i] = {c}]

\* self._topicmap[topic].add(source)
MapAdd(tm, t, c) ==
    LET m == GetItem(tm, t)
        i == KeyPos(m, t)
    IN  [m EXCEPT !.sets[i] = @ \cup {c}]

\* '|'.join(names): the names separated by the alternation operator
RECURSIVE Join(_)
Join(names) ==
    IF Len(names) = 0 THEN <<>>
    ELSE IF Len(names) = 1 THEN <<names[1]>>
    ELSE <<names[1], "|">> \o Join(Tail(names))

\* for topic in source.topic.topics: self._topicmap[topic].add(source)
RECURSIVE AddTopics(_, _, _)
AddTopics(tm, ts, c) ==
    IF Len(ts) = 0 THEN tm
    ELSE AddTopics(MapAdd(tm, ts[1], c), Tail(ts), c)

\* for topic in source.topic.topics: None is not iterable
Iterable(ts) == ts # NoTopics

\* for source in self._sources: ...   (order: the iteration order of the set);
\* the TypeError of a descriptor without topics ends the loop
RECURSIVE AddSources(_, _)
AddSources(tm, order) ==
    IF Len(order) = 0 THEN tm
    ELSE IF ~Iterable(topics(order[1])) THEN tm
    ELSE AddSources(AddTopics(tm, topics(order[1]), order[1]), Tail(order))

\* _compile_pattern raises TypeError when the loop meets such a descriptor
CompileRaises(order) == \E i \in 1 .. Len(order) : ~Iterable(topics(order[i]))

\* Clear that leaves the old entries in place
Clear_skipped(tm) == tm

\* self._topicmap.clear()
Clear(tm) == EmptyMap

\* _compile_pattern: the topic map after the call, for one iteration order
CompiledMap(tm, order) == AddSources(Clear(tm), order)

\* _compile_pattern: self._pattern = '|'.join(self._topicmap)
CompiledPattern(tm) == Join(tm.keys)

VARIABLES
    _sources,     \* TopicManager._sources: the registered consumers
    _topicmap,    \* TopicManager._topicmap
    _pattern,     \* TopicManager._pattern (Unset until the first compile)
    _on_message,  \* TopicManager._on_message: TRUE once the callback is built
    consumer,     \* TopicManager.consumer: None or the transport consumer
    hashOrder,    \* the order in which sets of consumers iterate in this run
    transport,    \* the transport consumer: what the Manager has called on it
    acks,         \* acks[m]: consumer.ack calls made for record m
    ackCalled,    \* ackCalled[m]: ack_message has been called with record m
    pending,      \* consumers registered since _compile_pattern last ran
    late,         \* consumers registered after the bootstrap compiled the pattern
    pcStart,      \* position of the _delayed_start task
    pcStop,       \* position of Service.stop / on_stop
    stoppedAt,    \* pcStart at the moment Service.stop was called
    refcount,     \* Message.refcount of each record
    acked,        \* Message.acked of each record
    disp,         \* the frame of on_message(message) for the record in dispatch
    mlog,         \* the calls that on_message frame made, in program order
    queue,        \* TopicConsumer.queue of each consumer
    enq,          \* enq[c]: events the frame's record put on c's queue
    keyErrs,      \* keyErrs[c]: on_key_decode_error calls for the frame's record
    valErrs,      \* valErrs[c]: on_value_decode_error calls for the frame's record
    sent,         \* sent[c]: the events put on c's queue, in the order of the puts
    pulled,       \* pulled[c]: the events c's get / __anext__ returned, in order
    waiting,      \* consumers whose get is suspended on an empty queue
    raised        \* the exception the last step raised: <<operation, exception>>, or <<>>

vars == <<_sources, _topicmap, _pattern, _on_message, consumer, hashOrder,
          transport, acks, ackCalled, pending, late, pcStart, pcStop, stoppedAt,
          refcount, acked, disp, mlog, queue, enq, keyErrs, valErrs,
          sent, pulled, waiting, raised>>

mgrVars == <<_sources, _topicmap, _pattern, _on_message, consumer, hashOrder>>
ackVars == <<acks, ackCalled, acked>>
svcVars == <<pcStart, pcStop, stoppedAt>>
pullVars == <<sent, pulled, waiting>>
dlvVars == <<disp, mlog, queue, enq, keyErrs, valErrs, refcount, pullVars>>

Unset == <<"<unset>">>

\* no exception was raised
NoException == <<>>

\* no on_message frame: the transport has handed over no record yet
NoFrame == [pc |-> "idle", msg |-> 0, topic |-> None, sources |-> <<>>, i |-> 0]

Zero == [c \in Consumers |-> 0]

(***************************************************************************)
(* The transport consumer, as the Manager sees it: the callback it was     *)
(* created with, the pattern of the last subscribe call, and the kinds of  *)
(* calls made on it, in the order of their first occurrence.               *)
(***************************************************************************)
NoCalls == [callback |-> FALSE, subscription |-> Unset, kinds |-> <<>>]

\* one more call of a kind on the transport consumer
Called(tr, kind) ==
    IF kind \in Range(tr.kinds) THEN tr ELSE [tr EXCEPT !.kinds = Append(@, kind)]

\* self.app.transport.create_consumer(callback=self._on_message, ...)
create_consumer(tr, callback) == [Called(tr, "create") EXCEPT !.callback = callback]

\* self.consumer.subscribe(pattern)
subscribe(tr, pattern) == [Called(tr, "subscribe") EXCEPT !.subscription = pattern]

Init ==
    /\ _sources = {}
    /\ _topicmap = EmptyMap
    /\ _pattern = Unset
    /\ _on_message = FALSE
    /\ consumer = None
    /\ hashOrder \in Orders(Consumers)
    /\ transport = NoCalls
    /\ acks = [m \in Msgs |-> 0]
    /\ ackCalled = [m \in Msgs |-> FALSE]
    /\ pending = {}
    /\ late = {}
    /\ pcStart = "created"
    /\ pcStop = "no"
    /\ stoppedAt = None
    /\ refcount = [m \in Msgs |-> 0]
    /\ acked = [m \in Msgs |-> FALSE]
    /\ disp = NoFrame
    /\ mlog = <<>>
    /\ queue = [c \in Consumers |-> <<>>]
    /\ enq = Zero
    /\ keyErrs = Zero
    /\ valErrs = Zero
    /\ sent = [c \in Consumers |-> <<>>]
    /\ pulled = [c \in Consumers |-> <<>>]
    /\ waiting = {}
    /\ raised = NoException

\* add_source without the membership test
add_source_unchecked(source) ==
    /\ _sources' = _sources \cup {source}
    /\ pending' = pending \cup {source}
    /\ late' = IF consumer # None THEN late \cup {source} ELSE late
    /\ raised' = NoException
    /\ UNCHANGED <<_topicmap, _pattern, _on_message, consumer, hashOrder, transport>>
    /\ UNCHANGED <<ackVars, svcVars, dlvVars>>

(***************************************************************************)
(* TopicManager.add_source                                                 *)
(***************************************************************************)
add_source(source) ==
    /\ IF source \in _sources
       THEN /\ raised' = <<"add_source", "ValueError">>
            /\ UNCHANGED <<_sources, pending, late>>
       ELSE /\ _sources' = _sources \cup {source}
            /\ pending' = pending \cup {source}
            /\ late' = IF consumer # None THEN late \cup {source} ELSE late
            /\ raised' = NoException
    /\ UNCHANGED <<_topicmap, _pattern, _on_message, consumer, hashOrder, transport>>
    /\ UNCHANGED <<ackVars, svcVars, dlvVars>>

\* _compile_pattern that returns without rebuilding anything
_compile_pattern_skipped ==
    /\ pending' = {}
    /\ UNCHANGED <<_topicmap, _pattern>>

(***************************************************************************)
(* TopicManager._compile_pattern, as update and _delayed_start call it:    *)
(* the topic map and the pattern string it leaves.                         *)
(***************************************************************************)
_compile_pattern ==
    /\ pending' = IF CompileRaises(Iter(_sources, hashOrder)) THEN pending ELSE {}
    /\ _topicmap' = CompiledMap(_topicmap, Iter(_sources, hashOrder))
    /\ _pattern' = IF CompileRaises(Iter(_sources, hashOrder))
                   THEN _pattern
                   ELSE CompiledPattern(_topicmap')

(***************************************************************************)
(* TopicManager.update: recompile, then await consumer.subscribe(pattern); *)
(* nothing follows the await.  With self.consumer still None the attribute *)
(* access raises after the recompilation; an exception of the              *)
(* recompilation itself propagates before that.                            *)
(***************************************************************************)
update ==
    /\ UNCHANGED <<_sources, _on_message, consumer, hashOrder, late>>
    /\ UNCHANGED <<ackVars, svcVars, dlvVars>>
    /\ _compile_pattern
    /\ IF CompileRaises(Iter(_sources, hashOrder))
       THEN /\ raised' = <<"update", "TypeError">>
            /\ UNCHANGED transport
       ELSE IF consumer = None
       THEN /\ raised' = <<"update", "AttributeError">>
            /\ UNCHANGED transport
       ELSE /\ transport' = subscribe(transport, _pattern')
            /\ raised' = NoException

(***************************************************************************)
(* TopicManager.on_start: schedules _delayed_start, which first sleeps.    *)
(***************************************************************************)
on_start ==
    /\ pcStart = "created"
    /\ pcStop = "no"
    /\ pcStart' = "sleeping"
    /\ raised' = NoException
    /\ UNCHANGED <<mgrVars, transport, pending, late, pcStop, stoppedAt>>
    /\ UNCHANGED <<ackVars, dlvVars>>

\* BootstrapCalls without the subscription
BootstrapCalls_unsubscribed(tr, callback, pattern) == create_consumer(tr, callback)

\* self.consumer = self._create_consumer(), with callback=self._on_message,
\* then await self.consumer.subscribe(self._pattern)
BootstrapCalls(tr, callback, pattern) == subscribe(create_consumer(tr, callback), pattern)

(***************************************************************************)
(* TopicManager._delayed_start after the sleep: compile the pattern, build *)
(* the callback, create the consumer, call subscribe (suspends).  An       *)
(* exception of _compile_pattern ends the task before the rest.            *)
(***************************************************************************)
_delayed_start ==
    /\ pcStart = "sleeping"
    /\ pcStart' = IF CompileRaises(Iter(_sources, hashOrder)) THEN "failed" ELSE "subscribing"
    /\ _compile_pattern
    /\ IF CompileRaises(Iter(_sources, hashOrder))
       THEN /\ raised' = <<"_delayed_start", "TypeError">>
            /\ UNCHANGED <<_on_message, consumer, transport>>
       ELSE /\ _on_message' = TRUE
            /\ consumer' = "consumer"
            /\ transport' = BootstrapCalls(transport, _on_message', _pattern')
            /\ raised' = NoException
    /\ UNCHANGED <<_sources, hashOrder, late, pcStop, stoppedAt>>
    /\ UNCHANGED <<ackVars, dlvVars>>

\* subscribe has returned: await self.consumer.start()
_delayed_start_start ==
    /\ pcStart = "subscribing"
    /\ transport' = Called(transport, "start")
    /\ pcStart' = "starting"
    /\ raised' = NoException
    /\ UNCHANGED <<mgrVars, pending, late, pcStop, stoppedAt>>
    /\ UNCHANGED <<ackVars, dlvVars>>

\* start has returned: the task ends
_delayed_start_done ==
    /\ pcStart = "starting"
    /\ pcStart' = "done"
    /\ raised' = NoException
    /\ UNCHANGED <<mgrVars, transport, pending, late, pcStop, stoppedAt>>
    /\ UNCHANGED <<ackVars, dlvVars>>

\* on_stop without the test of self.consumer: None has no stop()
on_stop_unguarded ==
    IF consumer # None
    THEN /\ transport' = Called(transport, "stop")
         /\ pcStop' = "stopping"
         /\ raised' = NoException
    ELSE /\ transport' = transport
         /\ pcStop' = "failed"
         /\ raised' = <<"on_stop", "AttributeError">>

(***************************************************************************)
(* TopicManager.on_stop: if self.consumer: await self.consumer.stop()      *)
(***************************************************************************)
on_stop ==
    IF consumer # None
    THEN /\ transport' = Called(transport, "stop")
         /\ pcStop' = "stopping"
         /\ raised' = NoException
    ELSE /\ transport' = transport
         /\ pcStop' = "stopped"
         /\ raised' = NoException

(***************************************************************************)
(* Service.stop: runs on_stop, then cancels the futures added with         *)
(* add_future; a cancelled task never resumes after its current await.     *)
(***************************************************************************)
CancelFutures(pc) == IF pc \in {"sleeping", "subscribing", "starting"} THEN "cancelled" ELSE pc

stop ==
    /\ pcStop = "no"
    /\ on_stop
    /\ stoppedAt' = pcStart
    /\ pcStart' = IF pcStop' = "stopped" THEN CancelFutures(pcStart) ELSE pcStart
    /\ UNCHANGED <<mgrVars, pending, late>>
    /\ UNCHANGED <<ackVars, dlvVars>>

\* consumer.stop() has returned to on_stop, on_stop to Service.stop
stop_return ==
    /\ pcStop = "stopping"
    /\ pcStop' = "stopped"
    /\ pcStart' = CancelFutures(pcStart)
    /\ raised' = NoException
    /\ UNCHANGED <<mgrVars, transport, pending, late, stoppedAt>>
    /\ UNCHANGED <<ackVars, dlvVars>>

(***************************************************************************)
(* The dispatch callback built by _compile_message_handler.                *)
(***************************************************************************)
\* the transport consumer invokes the callback it was created with once it
\* is started, until it is stopped, one record at a time
Running ==
    /\ transport.callback
    /\ "start" \in Range(transport.kinds)
    /\ "stop" \notin Range(transport.kinds)

\* Message.incref_bulk(users): the count grows by the number of users
incref_bulk(rc, users) == rc + Len(users)

\* NextSource with the loop left after the first source
NextSource_break(f) ==
    IF f.i < Len(f.sources) /\ f.i < 1
    THEN [f EXCEPT !.i = @ + 1, !.pc = "key"]
    ELSE [f EXCEPT !.pc = "done"]

\* for source in sources: the loop moves on to the next source, or ends
NextSource(f) ==
    IF f.i < Len(f.sources)
    THEN [f EXCEPT !.i = @ + 1, !.pc = "key"]
    ELSE [f EXCEPT !.pc = "done"]

\* await source.deliver(message) for the source the loop moves on to
DeliverCall(f) ==
    IF f.i < Len(f.sources) THEN <<(<<"deliver", f.sources[f.i + 1]>>)>> ELSE <<>>

\* FirstCalls with the bulk increment made after the first deliver call
FirstCalls_late(listed, f) ==
    <<(<<"getitem", listed>>)>> \o DeliverCall(f) \o <<(<<"incref_bulk", Len(f.sources)>>)>>

\* the calls of on_message up to its first suspension, in program order:
\* the lookup (with the set it returned), the bulk increment, the first deliver
FirstCalls(listed, f) ==
    <<(<<"getitem", listed>>), (<<"incref_bulk", Len(f.sources)>>)>> \o DeliverCall(f)

\* on_message(message) up to the first await inside deliver: the next record,
\* of topic t, arrives with its acked flag a
on_message(t, a) ==
    /\ Running
    /\ disp.pc \in {"idle", "done"}
    /\ disp.msg + 1 \in DOMAIN refcount
    /\ LET m == disp.msg + 1
           tm == GetItem(_topicmap, t)
           \* sources = list(get_sources_for_topic(message.topic))
           f == [pc |-> "lookup", msg |-> m, topic |-> t,
                 sources |-> Iter(Value(tm, t), hashOrder), i |-> 0]
       IN  /\ _topicmap' = tm
           /\ refcount' = [refcount EXCEPT ![m] = incref_bulk(@, f.sources)]
           /\ acked' = [acked EXCEPT ![m] = a]
           /\ mlog' = FirstCalls(Value(tm, t), f)
           /\ disp' = NextSource(f)
    /\ enq' = Zero
    /\ keyErrs' = Zero
    /\ valErrs' = Zero
    /\ raised' = NoException
    /\ UNCHANGED <<_sources, _pattern, _on_message, consumer, hashOrder, transport>>
    /\ UNCHANGED <<acks, ackCalled, pending, late, svcVars, queue, pullVars>>

(***************************************************************************)
(* TopicConsumer.deliver, and the loop of on_message around it.            *)
(***************************************************************************)
\* TopicConsumer.put: await self.queue.put(event)
put(q, c, event) == [q EXCEPT ![c] = Append(@, event)]

\* deliver_key that goes on to the value after a key failure
deliver_key_fallthrough(ok) ==
    /\ disp.pc = "key"
    /\ LET c == disp.sources[disp.i]
       IN  /\ keyErrs' = IF ok THEN keyErrs ELSE [keyErrs EXCEPT ![c] = @ + 1]
           /\ disp' = [disp EXCEPT !.pc = "value"]
           /\ UNCHANGED mlog
    /\ raised' = NoException
    /\ UNCHANGED <<mgrVars, transport, pending, late, ackVars, svcVars>>
    /\ UNCHANGED <<queue, enq, valErrs, refcount, pullVars>>

\* deliver_key that lets the key failure escape into on_message, whose loop ends
deliver_key_raising(ok) ==
    /\ disp.pc = "key"
    /\ LET c == disp.sources[disp.i]
       IN  IF ok
           THEN /\ disp' = [disp EXCEPT !.pc = "value"]
                /\ raised' = NoException
                /\ UNCHANGED <<mlog, keyErrs>>
           ELSE /\ keyErrs' = [keyErrs EXCEPT ![c] = @ + 1]
                /\ disp' = [disp EXCEPT !.pc = "done"]
                /\ raised' = <<"on_message", "KeyDecodeError">>
                /\ UNCHANGED mlog
    /\ UNCHANGED <<mgrVars, transport, pending, late, ackVars, svcVars>>
    /\ UNCHANGED <<queue, enq, valErrs, refcount, pullVars>>

\* loads_key returns (ok) or raises: on_key_decode_error, nothing enqueued
deliver_key(ok) ==
    /\ disp.pc = "key"
    /\ LET c == disp.sources[disp.i]
       IN  IF ok
           THEN /\ disp' = [disp EXCEPT !.pc = "value"]
                /\ UNCHANGED <<mlog, keyErrs>>
           ELSE /\ keyErrs' = [keyErrs EXCEPT ![c] = @ + 1]
                /\ mlog' = mlog \o DeliverCall(disp)
                /\ disp' = NextSource(disp)
    /\ raised' = NoException
    /\ UNCHANGED <<mgrVars, transport, pending, late, ackVars, svcVars>>
    /\ UNCHANGED <<queue, enq, valErrs, refcount, pullVars>>

\* deliver_value after which the loop reads the topic map again
deliver_value_relookup(ok) ==
    /\ disp.pc = "value"
    /\ LET c == disp.sources[disp.i]
           v == IF ok THEN "value" ELSE None
           tm == GetItem(_topicmap, disp.topic)
       IN  /\ valErrs' = IF ok THEN valErrs ELSE [valErrs EXCEPT ![c] = @ + 1]
           /\ queue' = put(queue, c, [msg |-> disp.msg, v |-> v])
           /\ sent' = [sent EXCEPT ![c] = @ \o SubSeq(queue'[c], Len(queue[c]) + 1, Len(queue'[c]))]
           /\ enq' = [enq EXCEPT ![c] = @ + Len(queue'[c]) - Len(queue[c])]
           /\ mlog' = mlog \o DeliverCall([disp EXCEPT !.sources = Iter(Value(tm, disp.topic), hashOrder)])
           /\ disp' = NextSource([disp EXCEPT !.sources = Iter(Value(tm, disp.topic), hashOrder)])
    /\ raised' = NoException
    /\ UNCHANGED <<mgrVars, transport, pending, late, ackVars, svcVars>>
    /\ UNCHANGED <<keyErrs, refcount, pulled, waiting>>

\* deliver_value that drops the record after a value failure
deliver_value_dropped(ok) ==
    /\ disp.pc = "value"
    /\ LET c == disp.sources[disp.i]
       IN  /\ valErrs' = IF ok THEN valErrs ELSE [valErrs EXCEPT ![c] = @ + 1]
           /\ queue' = IF ok THEN put(queue, c, [msg |-> disp.msg, v |-> "value"]) ELSE queue
           /\ sent' = [sent EXCEPT ![c] = @ \o SubSeq(queue'[c], Len(queue[c]) + 1, Len(queue'[c]))]
           /\ enq' = [enq EXCEPT ![c] = @ + Len(queue'[c]) - Len(queue[c])]
           /\ mlog' = mlog \o DeliverCall(disp)
           /\ disp' = NextSource(disp)
    /\ raised' = NoException
    /\ UNCHANGED <<mgrVars, transport, pending, late, ackVars, svcVars>>
    /\ UNCHANGED <<keyErrs, refcount, pulled, waiting>>

\* loads_value returns (ok) or raises: on_value_decode_error; then put(v)
deliver_value(ok) ==
    /\ disp.pc = "value"
    /\ LET c == disp.sources[disp.i]
           v == IF ok THEN "value" ELSE None
       IN  /\ valErrs' = IF ok THEN valErrs ELSE [valErrs EXCEPT ![c] = @ + 1]
           /\ queue' = put(queue, c, [msg |-> disp.msg, v |-> v])
           /\ sent' = [sent EXCEPT ![c] = @ \o SubSeq(queue'[c], Len(queue[c]) + 1, Len(queue'[c]))]
           /\ enq' = [enq EXCEPT ![c] = @ + Len(queue'[c]) - Len(queue[c])]
           /\ mlog' = mlog \o DeliverCall(disp)
           /\ disp' = NextSource(disp)
    /\ raised' = NoException
    /\ UNCHANGED <<mgrVars, transport, pending, late, ackVars, svcVars>>
    /\ UNCHANGED <<keyErrs, refcount, pulled, waiting>>

\* get that takes the event put last
get_lifo(c) ==
    /\ queue[c] # <<>>
    /\ queue' = [queue EXCEPT ![c] = SubSeq(@, 1, Len(@) - 1)]
    /\ pulled' = [pulled EXCEPT ![c] = Append(@, queue[c][Len(queue[c])])]
    /\ waiting' = waiting \ {c}
    /\ raised' = NoException
    /\ UNCHANGED <<mgrVars, transport, pending, late, ackVars, svcVars>>
    /\ UNCHANGED <<disp, mlog, enq, keyErrs, valErrs, refcount, sent>>

\* TopicConsumer.get / __anext__: return await self.queue.get(), with an
\* event in the queue: its head is removed and returned
get(c) ==
    /\ queue[c] # <<>>
    /\ queue' = [queue EXCEPT ![c] = Tail(@)]
    /\ pulled' = [pulled EXCEPT ![c] = Append(@, Head(queue[c]))]
    /\ waiting' = waiting \ {c}
    /\ raised' = NoException
    /\ UNCHANGED <<mgrVars, transport, pending, late, ackVars, svcVars>>
    /\ UNCHANGED <<disp, mlog, enq, keyErrs, valErrs, refcount, sent>>

\* get / __anext__ on an empty queue: the pull suspends inside queue.get()
get_wait(c) ==
    /\ queue[c] = <<>>
    /\ c \notin waiting
    /\ waiting' = waiting \cup {c}
    /\ raised' = NoException
    /\ UNCHANGED <<mgrVars, transport, pending, late, ackVars, svcVars>>
    /\ UNCHANGED <<disp, mlog, queue, enq, keyErrs, valErrs, refcount, sent, pulled>>

\* the task suspended in get is cancelled: CancelledError ends the pull,
\* which has taken nothing from the queue
get_cancel(c) ==
    /\ c \in waiting
    /\ waiting' = waiting \ {c}
    /\ raised' = <<"get", "CancelledError">>
    /\ UNCHANGED <<mgrVars, transport, pending, late, ackVars, svcVars>>
    /\ UNCHANGED <<disp, mlog, queue, enq, keyErrs, valErrs, refcount, sent, pulled>>

\* ack_message that acknowledges whatever the flag says
ack_message_unconditional(m) ==
    /\ m = disp.msg
    /\ disp.pc = "done"
    /\ acks[m] < MaxAcks
    /\ ackCalled' = [ackCalled EXCEPT ![m] = TRUE]
    /\ acks' = [acks EXCEPT ![m] = @ + 1]
    /\ acked' = [acked EXCEPT ![m] = TRUE]
    /\ raised' = NoException
    /\ UNCHANGED <<mgrVars, transport, pending, late, svcVars, dlvVars>>

(***************************************************************************)
(* TopicManager.ack_message / ack_offset.  The caller is the application,  *)
(* which acknowledges the latest record once its dispatch has returned.    *)
(***************************************************************************)
ack_message(m) ==
    /\ m = disp.msg
    /\ disp.pc = "done"
    /\ acks[m] < MaxAcks
    /\ ackCalled' = [ackCalled EXCEPT ![m] = TRUE]
    /\ IF ~acked[m]
       THEN \* return self.ack_offset(...): self.consumer.ack(tp, offset)
            /\ IF consumer = None
               THEN /\ raised' = <<"ack_message", "AttributeError">>
                    /\ UNCHANGED acks
               ELSE /\ acks' = [acks EXCEPT ![m] = @ + 1]
                    /\ raised' = NoException
            /\ UNCHANGED acked
       ELSE /\ acked' = [acked EXCEPT ![m] = TRUE]
            /\ raised' = NoException
            /\ UNCHANGED acks
    /\ UNCHANGED <<mgrVars, transport, pending, late, svcVars, dlvVars>>

\* The application registers its consumers at any moment; a second registration
\* of a registered consumer is tried while no record has been dispatched yet.
\* The pulls of the consumers are part of FlowSpec.
Next ==
    \/ \E c \in Consumers : (c \in _sources => disp.msg = 0) /\ add_source(c)
    \/ update
    \/ on_start
    \/ _delayed_start
    \/ _delayed_start_start
    \/ _delayed_start_done
    \/ stop
    \/ stop_return
    \/ \E t \in RecordTopics, a \in BOOLEAN : on_message(t, a)
    \/ \E ok \in BOOLEAN : deliver_key(ok)
    \/ \E ok \in BOOLEAN : deliver_value(ok)
    \/ \E m \in Msgs : ack_message(m)

Spec == Init /\ [][Next]_vars

(***************************************************************************)
(* The flow of records through a Manager whose bootstrap has ended with    *)
(* both consumers registered: the transport hands over up to MaxFlow       *)
(* records, the consumers pull, wait and have their pulls cancelled.       *)
(***************************************************************************)
FlowMsgs == 1 .. MaxFlow

FlowInit ==
    /\ hashOrder \in Orders(Consumers)
    /\ _sources = Consumers
    /\ _topicmap = CompiledMap(EmptyMap, Iter(_sources, hashOrder))
    /\ _pattern = CompiledPattern(_topicmap)
    /\ _on_message = TRUE
    /\ consumer = "consumer"
    /\ transport = Called(BootstrapCalls(NoCalls, _on_message, _pattern), "start")
    /\ acks = [m \in FlowMsgs |-> 0]
    /\ ackCalled = [m \in FlowMsgs |-> FALSE]
    /\ pending = {}
    /\ late = {}
    /\ pcStart = "done"
    /\ pcStop = "no"
    /\ stoppedAt = None
    /\ refcount = [m \in FlowMsgs |-> 0]
    /\ acked = [m \in FlowMsgs |-> FALSE]
    /\ disp = NoFrame
    /\ mlog = <<>>
    /\ queue = [c \in Consumers |-> <<>>]
    /\ enq = Zero
    /\ keyErrs = Zero
    /\ valErrs = Zero
    /\ sent = [c \in Consumers |-> <<>>]
    /\ pulled = [c \in Consumers |-> <<>>]
    /\ waiting = {}
    /\ raised = NoException

FlowNext ==
    \/ \E t \in RecordTopics : on_message(t, FALSE)
    \/ \E ok \in BOOLEAN : deliver_key(ok)
    \/ \E ok \in BOOLEAN : deliver_value(ok)
    \/ \E c \in Consumers : get(c)
    \/ \E c \in Consumers : get_wait(c)
    \/ \E c \in Consumers : get_cancel(c)

FlowSpec == FlowInit /\ [][FlowNext]_vars

(***************************************************************************)
(* Registration and compilation with a pattern-based descriptor among the  *)
(* consumers the application registers.  No record is handed over.         *)
(***************************************************************************)
CompileInit ==
    /\ hashOrder \in Orders(Registrable)
    /\ _sources = {}
    /\ _topicmap = EmptyMap
    /\ _pattern = Unset
    /\ _on_message = FALSE
    /\ consumer = None
    /\ transport = NoCalls
    /\ acks = [m \in Msgs |-> 0]
    /\ ackCalled = [m \in Msgs |-> FALSE]
    /\ pending = {}
    /\ late = {}
    /\ pcStart = "created"
    /\ pcStop = "no"
    /\ stoppedAt = None
    /\ refcount = [m \in Msgs |-> 0]
    /\ acked = [m \in Msgs |-> FALSE]
    /\ disp = NoFrame
    /\ mlog = <<>>
    /\ queue = [c \in Consumers |-> <<>>]
    /\ enq = Zero
    /\ keyErrs = Zero
    /\ valErrs = Zero
    /\ sent = [c \in Consumers |-> <<>>]
    /\ pulled = [c \in Consumers |-> <<>>]
    /\ waiting = {}
    /\ raised = NoException

CompileNext ==
    \/ \E c \in Registrable : add_source(c)
    \/ update
    \/ on_start
    \/ _delayed_start
    \/ _delayed_start_start
    \/ _delayed_start_done

CompileSpec == CompileInit /\ [][CompileNext]_vars

(***************************************************************************)
(* Vocabulary of the properties.                                           *)
(***************************************************************************)
\* the dict as a function from its keys
MapFun(tm) == [t \in Keys(tm) |-> Value(tm, t)]

\* the consumers of S whose descriptor lists topic t
Listing(S, t) == {c \in S : t \in Range(topics(c))}

\* the topic map computed from a set S of registered consumers
Expected(S) == [t \in UNION {Range(topics(c)) : c \in S} |-> Listing(S, t)]

\* the consumers the topic map lists for topic t
Listed(tm, t) == IF t \in Keys(tm) THEN Value(tm, t) ELSE {}

\* the consumers present in some entry of the topic map
Members(tm) == UNION {Value(tm, t) : t \in Keys(tm)}

\* the names between the separators of a pattern string
Names(p) == [i \in 1 .. (Len(p) + 1) \div 2 |-> p[2 * i - 1]]

\* pattern string p is the alternation of exactly the names of K, each once
IsAlternationOf(p, K) ==
    /\ Len(p) = IF K = {} THEN 0 ELSE 2 * Cardinality(K) - 1
    /\ \A i \in 1 .. Len(p) : (i % 2 = 0) => p[i] = "|"
    /\ Range(Names(p)) = K

\* a step in which _compile_pattern ran
Compiles == update \/ _delayed_start

\* a step in which the dispatch callback was handed a record
Dispatches == disp'.msg # disp.msg

\* positions of the calls named op in a log
Positions(log, op) == {i \in 1 .. Len(log) : log[i][1] = op}

(***************************************************************************)
(* C1: when a record is handed to the dispatch callback, its reference     *)
(* count grows in one bulk step by exactly the number of consumers the     *)
(* topic map lists for its topic, and it does not change again during the  *)
(* dispatch; in the calls of the callback the single incref_bulk call      *)
(* comes before every deliver call.                                        *)
(***************************************************************************)
C1_IncrefBeforeDeliver ==
    [][/\ Dispatches =>
            refcount'[disp'.msg] =
                refcount[disp'.msg] + Cardinality(Listed(_topicmap, disp'.topic))
       /\ ~Dispatches => refcount' = refcount
       /\ disp'.pc # "idle" =>
            /\ Cardinality(Positions(mlog', "incref_bulk")) = 1
            /\ \A i \in Positions(mlog', "incref_bulk"), j \in Positions(mlog', "deliver") : i < j
      ]_vars

\* a record of topic b was counted twice and both deliver calls were made
C1_Witness ==
    /\ disp.pc = "done"
    /\ disp.topic = "b"
    /\ refcount[disp.msg] = 2
    /\ Cardinality(Positions(mlog, "deliver")) = 2

(***************************************************************************)
(* C2: when the dispatch of a record has ended and no key or value failed  *)
(* to decode, exactly one event was put on the queue of every consumer the *)
(* topic map listed for the record's topic at the lookup, and none on the  *)
(* queue of any other consumer.                                            *)
(***************************************************************************)
C2_OneEventPerListedConsumer ==
    (/\ disp.pc = "done"
     /\ \A c \in Consumers : keyErrs[c] = 0 /\ valErrs[c] = 0)
    => \A c \in Consumers : enq[c] = IF c \in mlog[1][2] THEN 1 ELSE 0

\* a record of topic a went to C1 alone while C2 was registered as well
C2_Witness ==
    /\ disp.pc = "done"
    /\ disp.topic = "a"
    /\ _sources = Consumers
    /\ pending = {}
    /\ \A c \in Consumers : keyErrs[c] = 0 /\ valErrs[c] = 0
    /\ enq = [c \in Consumers |-> IF c = "C1" THEN 1 ELSE 0]

C4_CompilePattern ==
    [][Compiles =>
         /\ MapFun(_topicmap') = Expected(_sources')
         /\ IsAlternationOf(_pattern', Keys(_topicmap'))
      ]_vars

\* update() rebuilt, for both consumers, a map that held an entry for z
C4_Witness ==
    /\ disp.topic = "z"
    /\ "z" \notin Keys(_topicmap)
    /\ MapFun(_topicmap) = Expected(Consumers)
    /\ Len(_pattern) = 5

(***************************************************************************)
(* C5 as stated: whatever the sequence of ack_message calls on a record,   *)
(* the transport receives one ack for it at most, and a record whose       *)
(* offset was acknowledged is marked acknowledged.                         *)
(***************************************************************************)
C5_Original ==
    \A m \in Msgs :
        /\ acks[m] <= 1
        /\ acks[m] = 1 => acked[m]

(***************************************************************************)
(* C6: ack_message on a record whose acked flag is already true makes no   *)
(* call to the transport consumer and leaves the flag true.                *)
(***************************************************************************)
C6_AckedIsNoOp ==
    [][\A m \in Msgs :
         (ack_message(m) /\ acked[m]) =>
            /\ acks' = acks
            /\ transport' = transport
            /\ acked'[m]
            /\ raised' = NoException
      ]_vars

\* ack_message was called on a record that arrived acknowledged
C6_Witness ==
    \E m \in Msgs : acked[m] /\ ackCalled[m] /\ acks[m] = 0

(***************************************************************************)
(* C7: if the Manager is stopped before the grace period has elapsed, no   *)
(* transport consumer is created, subscribed or started in any later       *)
(* state; on_stop with no transport consumer makes no transport call and   *)
(* raises nothing.                                                         *)
(***************************************************************************)
C7_StoppedEarly ==
    /\ stoppedAt \in {"created", "sleeping"} =>
          /\ transport = NoCalls
          /\ consumer = None
          /\ pcStart \in {"created", "cancelled"}
    /\ raised # <<"on_stop", "AttributeError">>

\* stopped during the sleep; an update() tried afterwards has just failed
C7_Witness ==
    /\ stoppedAt = "sleeping"
    /\ pcStop = "stopped"
    /\ _sources # {}
    /\ raised = <<"update", "AttributeError">>

(***************************************************************************)
(* C8: no transport consumer exists and no transport call is made until    *)
(* the grace period has elapsed; the calls then begin with create (handed  *)
(* the built callback), then subscribe; start is called in a later step    *)
(* than the first subscribe; and the pattern subscribed to is always the   *)
(* one compiled, after the grace period, in the step of the subscribe call *)
(* from the consumers registered at that moment.                           *)
(***************************************************************************)
C8_BootstrapOrder ==
    [][/\ pcStart' \in {"created", "sleeping"} => (transport' = NoCalls /\ consumer' = None)
       /\ transport'.kinds # <<>> =>
            /\ transport'.callback
            /\ Len(transport'.kinds) >= 2
            /\ transport'.kinds[1] = "create"
            /\ transport'.kinds[2] = "subscribe"
            /\ transport'.subscription = _pattern'
       /\ ("start" \in Range(transport'.kinds) /\ "start" \notin Range(transport.kinds)) =>
            "subscribe" \in Range(transport.kinds)
       /\ transport'.subscription # transport.subscription =>
            /\ pcStart # "created"
            /\ pcStart' \notin {"created", "sleeping"}
            /\ MapFun(_topicmap') = Expected(_sources)
            /\ IsAlternationOf(transport'.subscription, Keys(_topicmap'))
      ]_vars

\* the bootstrap ran to its end with both consumers registered in time
C8_Witness ==
    /\ pcStart = "done"
    /\ _sources = Consumers
    /\ late = {}
    /\ transport.kinds = <<"create", "subscribe", "start">>
    /\ Range(Names(transport.subscription)) = {"a", "b", "c"}

(***************************************************************************)
(* C9: a record handed to the dispatch callback goes to exactly the        *)
(* registered consumers listing its topic that were not registered since   *)
(* the last compile: a consumer registered after the bootstrap compiled    *)
(* the pattern gets no deliver call and no event until update() is called, *)
(* and from update() on it gets the records of its topics from the same    *)
(* callback; the pattern the transport consumer is subscribed to names the *)
(* topics of every consumer that is not waiting for an update().           *)
(***************************************************************************)
C9_LateRegistration ==
    [][/\ Dispatches => Range(disp'.sources) = Listing(_sources \ pending, disp'.topic)
       /\ \A c \in pending' :
            /\ queue'[c] = <<>>
            /\ \A i \in Positions(mlog', "deliver") : mlog'[i][2] # c
       /\ consumer' # None =>
            \A c \in _sources' \ pending' :
                Range(topics(c)) \subseteq Range(Names(transport'.subscription))
      ]_vars

\* C2 was registered after the bootstrap, update() was called and subscribed
\* to a pattern with c, and a record then reached C2's queue
C9_Witness ==
    /\ late = {"C2"}
    /\ pending = {}
    /\ "c" \in Range(Names(transport.subscription))
    /\ enq["C2"] = 1

(***************************************************************************)
(* C10: add_source with a consumer that is already registered raises the   *)
(* duplicate-registration error and leaves the registered-consumer set and *)
(* its size unchanged; with an unregistered consumer it adds exactly that  *)
(* consumer and raises nothing.                                            *)
(***************************************************************************)
C10_AddSource ==
    [][\A c \in Consumers :
         add_source(c) =>
            IF c \in _sources
            THEN /\ raised' = <<"add_source", "ValueError">>
                 /\ _sources' = _sources
                 /\ Cardinality(_sources') = Cardinality(_sources)
            ELSE /\ raised' = NoException
                 /\ _sources' = _sources \cup {c}
                 /\ Cardinality(_sources') = Cardinality(_sources) + 1
      ]_vars

\* a second registration of a registered consumer has just failed
C10_Witness ==
    /\ raised = <<"add_source", "ValueError">>
    /\ _sources = {"C1"}

(***************************************************************************)
(* More vocabulary.                                                        *)
(***************************************************************************)
\* the consumer whose deliver call the frame is suspended in
Current == disp.sources[disp.i]

\* the records of which a sequence of events holds an event
MsgsOf(events) == {events[i].msg : i \in 1 .. Len(events)}

\* the consumers the frame has called deliver on
Delivered(log) == {log[i][2] : i \in Positions(log, "deliver")}

(***************************************************************************)
(* C11: when the key of a record fails to decode in deliver, the           *)
(* key-decode-error hook is invoked exactly once for that consumer and     *)
(* record, value deserialization is not attempted, no event is put on that *)
(* consumer's queue, and deliver returns to the dispatch loop without      *)
(* raising.                                                                *)
(***************************************************************************)
C11_KeyDecodeError ==
    [][/\ deliver_key(FALSE) =>
            /\ keyErrs' = [keyErrs EXCEPT ![Current] = keyErrs[Current] + 1]
            /\ valErrs' = valErrs
            /\ queue' = queue
            /\ sent' = sent
            /\ disp'.pc \in {"key", "done"}
            /\ disp'.pc = "key" => disp'.i = disp.i + 1
            /\ raised' = NoException
       /\ \A c \in Consumers :
            /\ keyErrs'[c] <= 1
            /\ keyErrs'[c] = 1 =>
                 /\ valErrs'[c] = 0
                 /\ enq'[c] = 0
                 /\ disp'.msg \notin MsgsOf(sent'[c])
      ]_vars

\* the key of a record of topic a failed for C1: nothing was ever put
C11_Witness ==
    /\ disp.pc = "done"
    /\ disp.topic = "a"
    /\ keyErrs["C1"] = 1
    /\ valErrs["C1"] = 0
    /\ sent["C1"] = <<>>

(***************************************************************************)
(* C12: when the key of a record decodes and its value fails to decode,    *)
(* the value-decode-error hook is invoked exactly once and exactly one     *)
(* event, carrying the absent value, is still put on that consumer's       *)
(* queue.                                                                  *)
(***************************************************************************)
C12_ValueDecodeError ==
    [][/\ deliver_value(FALSE) =>
            /\ valErrs' = [valErrs EXCEPT ![Current] = valErrs[Current] + 1]
            /\ keyErrs' = keyErrs
            /\ queue' = [queue EXCEPT ![Current] =
                            Append(queue[Current], [msg |-> disp.msg, v |-> None])]
            /\ enq' = [enq EXCEPT ![Current] = enq[Current] + 1]
            /\ raised' = NoException
       /\ \A c \in Consumers :
            /\ valErrs'[c] <= 1
            /\ valErrs'[c] = 1 => (keyErrs'[c] = 0 /\ enq'[c] = 1)
      ]_vars

\* the value of a record failed for C2: the event with the absent value is
\* the last one put on its queue
C12_Witness ==
    /\ disp.pc = "done"
    /\ valErrs["C2"] = 1
    /\ enq["C2"] = 1
    /\ sent["C2"] # <<>>
    /\ sent["C2"][Len(sent["C2"])] = [msg |-> disp.msg, v |-> None]

(***************************************************************************)
(* C13: a key or value decode failure in one consumer does not escape      *)
(* deliver into the dispatch callback: the step raises nothing and the     *)
(* loop goes on to the deliver call of the next listed consumer, so a      *)
(* finished dispatch has called deliver on every consumer the lookup       *)
(* returned; and a later record is dispatched from the topic map alone,    *)
(* whatever failed before.                                                 *)
(***************************************************************************)
C13_DecodeErrorContained ==
    [][/\ (deliver_key(FALSE) \/ deliver_value(FALSE)) =>
            /\ raised' = NoException
            /\ IF disp.i < Len(disp.sources)
               THEN /\ disp' = [disp EXCEPT !.pc = "key", !.i = disp.i + 1]
                    /\ mlog' = Append(mlog, <<"deliver", disp.sources[disp.i + 1]>>)
               ELSE /\ disp' = [disp EXCEPT !.pc = "done"]
                    /\ mlog' = mlog
       /\ disp'.pc = "done" => Delivered(mlog') = Range(disp'.sources)
       /\ (disp.pc = "done" /\ disp.msg + 1 \in DOMAIN refcount) =>
            ENABLED on_message("b", FALSE)
       /\ Dispatches =>
            /\ disp.pc \in {"idle", "done"}
            /\ Range(disp'.sources) = Listed(_topicmap, disp'.topic)
            /\ refcount'[disp'.msg] = Len(disp'.sources)
      ]_vars

\* the key of the first record, of topic b, failed for C1, which was served
\* first; C2 got its event, and both got the event of the second record
C13_Witness ==
    /\ hashOrder = <<"C1", "C2">>
    /\ disp.msg = 2
    /\ disp.pc = "done"
    /\ MsgsOf(sent["C1"]) = {2}
    /\ MsgsOf(sent["C2"]) = {1, 2}

(***************************************************************************)
(* C14 as stated: update() is accepted only while the Manager is running:  *)
(* called while running it raises nothing, leaves the Manager running, the *)
(* topic map recompiled from the registry and the transport consumer       *)
(* subscribed to the new pattern; called in any other state it raises and  *)
(* makes no call on the transport.                                         *)
(***************************************************************************)
C14_Original ==
    [][update =>
         IF Running
         THEN /\ raised' = NoException
              /\ Running'
              /\ MapFun(_topicmap') = Expected(_sources)
              /\ transport'.subscription = _pattern'
         ELSE /\ raised' # NoException
              /\ transport' = transport
      ]_vars

(***************************************************************************)
(* C15: for each consumer, the events its pulls returned, followed by the  *)
(* events still in its queue, are exactly the events put on the queue, in  *)
(* the order of the puts, which is the order of the records' dispatch: no  *)
(* event is reordered, duplicated or lost, and a pull cancelled while it   *)
(* waits takes nothing.                                                    *)
(***************************************************************************)
C15_PullsArePrefix ==
    [][/\ \A c \in Consumers :
            /\ pulled'[c] \o queue'[c] = sent'[c]
            /\ \A i, j \in 1 .. Len(sent'[c]) : i < j => sent'[c][i].msg < sent'[c][j].msg
            /\ Len(pulled'[c]) >= Len(pulled[c])
            /\ SubSeq(pulled'[c], 1, Len(pulled[c])) = pulled[c]
       /\ \A c \in Consumers :
            get_cancel(c) => (queue' = queue /\ pulled' = pulled /\ sent' = sent)
      ]_vars

\* C1 pulled the event of the first record, waited for the second, and its
\* pull was cancelled after the event had arrived: the event is in the queue
C15_Witness ==
    /\ raised = <<"get", "CancelledError">>
    /\ Len(pulled["C1"]) = 1
    /\ pulled["C1"][1].msg = 1
    /\ Len(queue["C1"]) = 1
    /\ queue["C1"][1].msg = 2
    /\ "C1" \notin waiting

(***************************************************************************)
(* C16 as stated: with a consumer in the registry whose descriptor is      *)
(* pattern-based, a step that runs _compile_pattern still completes: it    *)
(* raises nothing from the compilation, and leaves the topic map and the   *)
(* pattern string built from the name-listed consumers alone.              *)
(***************************************************************************)
C16_Original ==
    [][(Compiles /\ "P" \in _sources) =>
         /\ raised' \notin {<<"update", "TypeError">>, <<"_delayed_start", "TypeError">>}
         /\ MapFun(_topicmap') = Expected(_sources \cap Consumers)
         /\ IsAlternationOf(_pattern', Keys(_topicmap'))
      ]_vars

(***************************************************************************)
(* C17 as stated: dispatching a record whose topic has no entry in the     *)
(* topic map adds zero to its reference count, calls deliver on no         *)
(* consumer, raises nothing, and leaves the topic map, the pattern string  *)
(* and the registry unchanged.                                             *)
(***************************************************************************)
C17_Original ==
    [][(Dispatches /\ disp'.topic \notin Keys(_topicmap)) =>
         /\ refcount' = refcount
         /\ Positions(mlog', "deliver") = {}
         /\ raised' = NoException
         /\ _topicmap' = _topicmap
         /\ _pattern' = _pattern
         /\ _sources' = _sources
      ]_vars

(***************************************************************************)
(* C18: the recipients of a record are fixed by the lookup: while its      *)
(* dispatch is in progress the list of recipients does not change,         *)
(* whatever is registered or recompiled at a suspension point; when the    *)
(* dispatch has finished, deliver was called once on each consumer the     *)
(* lookup returned and on no other, and the number of deliver calls is the *)
(* amount added to the record's reference count.                           *)
(***************************************************************************)
C18_RecipientsFixedAtLookup ==
    [][/\ (disp.pc \notin {"idle", "done"} /\ disp'.msg = disp.msg) =>
            /\ disp'.sources = disp.sources
            /\ refcount'[disp.msg] = refcount[disp.msg]
       /\ disp'.pc # "idle" =>
            /\ Range(disp'.sources) = mlog'[1][2]
            /\ Len(disp'.sources) = Cardinality(mlog'[1][2])
            /\ refcount'[disp'.msg] = Len(disp'.sources)
            /\ \A i \in 1 .. Len(disp'.sources) :
                  Cardinality({j \in Positions(mlog', "deliver") : mlog'[j][2] = disp'.sources[i]})
                     = IF i <= disp'.i THEN 1 ELSE 0
       /\ disp'.pc = "done" =>
            Cardinality(Positions(mlog', "deliver")) = refcount'[disp'.msg]
      ]_vars

\* the record of topic b was looked up with C1 alone registered; while C1's
\* deliver is suspended, C2 has been registered and the map recompiled
C18_Witness ==
    /\ disp.pc = "value"
    /\ disp.topic = "b"
    /\ disp.sources = <<"C1">>
    /\ refcount[disp.msg] = 1
    /\ Listed(_topicmap, "b") = Consumers

(***************************************************************************)
(* C19 as stated: once the dispatch of a record has finished, the amount   *)
(* added to its reference count equals the number of events put for that   *)
(* record on all consumer queues.                                          *)
(***************************************************************************)
C19_Original ==
    disp.pc = "done" => refcount[disp.msg] = enq["C1"] + enq["C2"]

(***************************************************************************)
(* C20 as stated: once on_stop has run, the transport consumer is never    *)
(* subscribed or started afterwards: the bootstrap does not go on to start *)
(* a consumer that was stopped while it was suspended in subscribe, and no *)
(* consumer is created after on_stop.                                      *)
(***************************************************************************)
C20_Original ==
    [][pcStop # "no" =>
         /\ transport'.subscription = transport.subscription
         /\ ~(update /\ consumer # None)
         /\ ~_delayed_start_start
         /\ ~_delayed_start
         /\ consumer' = consumer
      ]_vars

====
